---- MODULE Spec2Model ----
(***************************************************************************)
(* Model of ClaudeBBQConversation (src/ai_pitmaster.py): the sample buffer *)
(* temp_history, the Henderson stall detector, the 5PL curve fit with its  *)
(* ETA fields, the alert state machine and the per-sample handler          *)
(* process_temp_update.                                                    *)
(*                                                                         *)
(* Conventions.  Times are integer seconds on one clock.  Temperatures are *)
(* integer degrees F; the code's float arithmetic is modelled by exact     *)
(* rational arithmetic (comparisons are cross-multiplied).  A Python       *)
(* attribute that may be None is an option value: None is the empty set,   *)
(* a value v is {v}.                                                       *)
(***************************************************************************)
EXTENDS Integers, Sequences, FiniteSets, TLC

VARIABLES
    now,                 \* datetime.now(), seconds
    curve_fit,           \* module global: "scipy" or "None" (import guard)
    phone,               \* self.phone, option
    target_pit,          \* self.target_pit
    target_meat,         \* self.target_meat
    start_time,          \* self.start_time
    temp_history,        \* self.temp_history, sequence of samples
    last_update,         \* self.last_update, option
    ambient_temp,        \* self.ambient_temp, option
    model_params,        \* self.model_params, option of (K, k, lam, D, gamma)
    eta_wrap,            \* self.eta_wrap, option
    eta_finish,          \* self.eta_finish, option
    model_rmse,          \* self.model_rmse, option
    alert_states,        \* self.alert_states
    last_sms_time,       \* self.last_sms_time, alert type -> option
    n_messages,          \* len(self.messages)
    recent_user_actions, \* self.recent_user_actions, deque(maxlen=10)
    last_fuel_mention,   \* self.last_fuel_mention, option
    temp_recovery_in_progress,
    last_display_time,   \* option
    last_proactive_check,
    last_save_time,      \* option
    session_file,        \* content of the session file on disk
    loaded,              \* history: the buffer as constructed or restored
    passed,              \* history: the samples passed to process_temp_update
    call,                \* observation of the last call: operation, inputs, result
    data_queue,          \* self.data_queue, queue.Queue()
    main,                \* the main thread's position in run()
    produced             \* history: the samples the reader thread enqueued

vars == <<now, curve_fit, phone, target_pit, target_meat, start_time,
          temp_history, last_update, ambient_temp,
          model_params, eta_wrap, eta_finish, model_rmse,
          alert_states, last_sms_time,
          n_messages, recent_user_actions, last_fuel_mention,
          temp_recovery_in_progress,
          last_display_time, last_proactive_check, last_save_time,
          session_file, loaded, passed, call, data_queue, main, produced>>

\* ------------------------------------------------------------------------
\* Option values and small helpers
\* ------------------------------------------------------------------------
None == {}
Some(v) == {v}
Get(o) == CHOOSE x \in o : TRUE

Abs(x) == IF x < 0 THEN 0 - x ELSE x
Max2(a, b) == IF a >= b THEN a ELSE b

\* list(seq)[-n:]
LastN(h, n) == IF Len(h) <= n THEN h ELSE SubSeq(h, Len(h) - n + 1, Len(h))

\* list(seq)[:n]
FirstN(h, n) == IF Len(h) <= n THEN h ELSE SubSeq(h, 1, n)

RECURSIVE SeqSum(_)
SeqSum(s) == IF s = <<>> THEN 0 ELSE Head(s) + SeqSum(Tail(s))

SeqMax(s) == CHOOSE x \in {s[i] : i \in 1..Len(s)} :
                 \A y \in {s[i] : i \in 1..Len(s)} : y <= x
SeqMin(s) == CHOOSE x \in {s[i] : i \in 1..Len(s)} :
                 \A y \in {s[i] : i \in 1..Len(s)} : x <= y

Sample(t, p, m) == [time |-> t, pit |-> p, meat |-> m]

\* ------------------------------------------------------------------------
\* Program constants
\* ------------------------------------------------------------------------
\* Variants: a window one sample short; the distinct-timestamp guard off by
\* one either way; the fit minimum one point short
StallWindowShort     == 10 - 1
MinDistinctTimesFour == 3 + 1
MinDistinctTimesTwo  == 3 - 1
MinFitPointsShort    == 15 - 1

StallWindow      == 10      \* len(temp_history) < 10, [-10:]
MinDistinctTimes == 3       \* len(set(times_s)) < 3
StallLowF        == 150     \* 150 <= f0
StallHighF       == 170     \* f0 <= 170
AlphaNum         == 3       \* abs(alpha) <= 0.03, as AlphaNum / AlphaDen
AlphaDen         == 100
SecondsPerHour   == 3600    \* / 3600.0
FitWindowS       == 3600    \* timedelta(hours=1)
Stage1MaxF       == 150     \* d['meat'] <= 150
MinFitPoints     == 15      \* len(stage1_pts) < 15

\* ------------------------------------------------------------------------
\* Stall detector
\* ------------------------------------------------------------------------
\* A call's outcome: a returned value, or an exception leaving the call.
Returned(v) == [exc |-> "none", val |-> v]
Raised(e)   == [exc |-> e, val |-> FALSE]

\* abs(alpha) <= 0.03 with alpha = ((f1 - fm1) / (2 * dt_hours)) / f0,
\* dt_hours = dt_s / 3600, for dt_s # 0 and f0 # 0
\* Variant: the comparison made strict
AlphaWithinStallStrict(f1, f0, fm1, dt_s) ==
    Abs(f1 - fm1) * SecondsPerHour * AlphaDen
        < AlphaNum * 2 * Abs(dt_s) * Abs(f0)

AlphaWithinStall(f1, f0, fm1, dt_s) ==
    Abs(f1 - fm1) * SecondsPerHour * AlphaDen
        <= AlphaNum * 2 * Abs(dt_s) * Abs(f0)

\* 150 <= f0 <= 170
InStallBand(f0) == StallLowF <= f0 /\ f0 <= StallHighF

detect_stall_mathematical(h) ==
    IF Len(h) < StallWindow THEN Returned(FALSE)
    ELSE
        LET recent  == LastN(h, StallWindow)
            n       == Len(recent)
            times_s == [i \in 1..n |-> recent[i].time - recent[1].time]
            temps_f == [i \in 1..n |-> recent[i].meat]
        IN  IF Cardinality({times_s[i] : i \in 1..n}) < MinDistinctTimes
            THEN Returned(FALSE)
            ELSE
                LET t1  == times_s[n]
                    tm1 == times_s[n - 2]
                    f1  == temps_f[n]
                    f0  == temps_f[n - 1]
                    fm1 == temps_f[n - 2]
                    dt  == t1 - tm1
                IN  IF dt = 0 THEN Returned(FALSE)
                    ELSE IF f0 = 0 THEN Raised("ZeroDivisionError")
                    ELSE Returned(InStallBand(f0)
                                  /\ AlphaWithinStall(f1, f0, fm1, dt))

\* ------------------------------------------------------------------------
\* Logistic model and ETA calculation
\* ------------------------------------------------------------------------
\* popt as curve_fit returns it: (K, k, lam, D, gamma); lam in hours
Popt(K, k, lam, D, gamma) == [K |-> K, k |-> k, lam |-> lam, D |-> D, gamma |-> gamma]

\* Variant: both bounds exclusive
QualifiesStrict(d, t_now) == d.time > t_now - FitWindowS /\ d.meat < Stage1MaxF

\* d['time'] >= one_hour_ago and d['meat'] <= 150
Qualifies(d, t_now) == d.time >= t_now - FitWindowS /\ d.meat <= Stage1MaxF

\* stage1_pts: the qualifying samples of the whole buffer, in buffer order
stage1_pts(h, t_now) == SelectSeq(h, LAMBDA d : Qualifies(d, t_now))

\* The data arguments of curve_fit(self._logistic5, t_hours, temps, ...):
\* elapsed time of each point from t0 = stage1_pts[0][0] (in seconds) and
\* its meat temperature
points_args(pts) ==
    [t_s   |-> [i \in 1..Len(pts) |-> pts[i].time - pts[1].time],
     temps |-> [i \in 1..Len(pts) |-> pts[i].meat]]

solver_args(h, t_now) == points_args(stage1_pts(h, t_now))

\* Range of datetime/timedelta in hours from the model's epoch (datetime.max
\* is year 9999): a timedelta or a sum beyond it raises OverflowError.
DatetimeSpanHours == 7000 * 8766

\* math.exp(x) raises OverflowError for x > 709.78; arguments are kept in
\* seconds * (1/h), hence scaled by 3600.
ExpOverflowScaled == (70978 * SecondsPerHour) \div 100

\* 2.0 ** gamma raises OverflowError from gamma = 1024 on and is 0.0 from
\* gamma = -1075 down (a float division by it raises ZeroDivisionError)
PowOverflowExp  == 1024
PowUnderflowExp == 0 - 1075

\* Variant: the exponent without its parentheses, -k * t - lam
exp_arg_unparenthesised(t_s, p) == (0 - p.k) * t_s - p.lam * SecondsPerHour

\* -k * (t - lam) for t given in seconds, scaled by 3600
exp_arg(t_s, p) == (0 - p.k) * (t_s - p.lam * SecondsPerHour)

\* _logistic5(t, K, k, lam, D, gamma): the exception it raises, if any.
\* The range of the power is modelled where its base 1 + exp(0) is exactly
\* 2; other bases are evaluated with small gamma only.
logistic5_exc(t_s, p) ==
    IF exp_arg(t_s, p) > ExpOverflowScaled THEN "OverflowError"
    ELSE IF exp_arg(t_s, p) = 0 /\ p.gamma >= PowOverflowExp THEN "OverflowError"
    ELSE IF exp_arg(t_s, p) = 0 /\ p.gamma <= PowUnderflowExp
    THEN "ZeroDivisionError"
    ELSE "none"

\* ... and its value D + span / base ** gamma, with base = 1 + exp(arg):
\* exactly 2 for arg = 0, kept symbolic otherwise
logistic5_value(t_s, p) ==
    [D |-> p.D, span |-> p.K - p.D,
     base |-> IF exp_arg(t_s, p) = 0 THEN Some(2) ELSE None,
     arg |-> exp_arg(t_s, p), gamma |-> p.gamma]

\* self.start_time + timedelta(hours=lam + (t0 - start_time)/3600):
\* the exception it raises, if any
eta_wrap_exc(p, t0) ==
    IF Abs(p.lam) > DatetimeSpanHours THEN "OverflowError" ELSE "none"

\* ... and its value, t0 + lam hours
eta_wrap_value(p, t0) == t0 + p.lam * SecondsPerHour

\* ratio = (K - D) / (target_T - D) compared with 1 and 0, for target_T # D
RatioGT1(p, target_T) ==
    LET a == p.K - p.D
        b == target_T - p.D
    IN  (b > 0 /\ a > b) \/ (b < 0 /\ a < b)

RatioIn01(p, target_T) ==
    LET a == p.K - p.D
        b == target_T - p.D
    IN  (b > 0 /\ 0 < a /\ a < b) \/ (b < 0 /\ b < a /\ a < 0)

\* t_target = lam - (1/k) * math.log(ratio ** (1/gamma) - 1), then the
\* timedelta: the exception this raises, if any.  The logarithm's argument
\* is positive iff ratio > 1 (gamma > 0) or 0 < ratio < 1 (gamma < 0); a
\* zero k, gamma or target_T - D gives a ZeroDivisionError on Python floats
\* and an inf/nan on NumPy floats that timedelta() then rejects.
eta_finish_exc(p, target_T) ==
    IF p.k = 0 \/ p.gamma = 0 \/ target_T = p.D THEN "ZeroDivisionError"
    ELSE IF p.gamma > 0 /\ RatioGT1(p, target_T) THEN "none"
    ELSE IF p.gamma < 0 /\ RatioIn01(p, target_T) THEN "none"
    ELSE "ValueError"

\* 2^n for n >= 0
RECURSIVE Pow2(_)
Pow2(n) == IF n <= 0 THEN 1 ELSE 2 * Pow2(n - 1)

Sgn(x) == IF x < 0 THEN 0 - 1 ELSE IF x = 0 THEN 0 ELSE 1

\* Sign of math.log(ratio ** (1/gamma) - 1) where it is defined: the
\* argument is below 1 iff ratio ** (1/gamma) < 2, that is ratio < 2^gamma
\* for gamma > 0 and ratio > 2^gamma for gamma < 0 (gamma an integer here)
log_sign(p, target_T) ==
    IF p.gamma > 0
    THEN Sgn(Abs(p.K - p.D) - Abs(target_T - p.D) * Pow2(p.gamma))
    ELSE Sgn(Abs(target_T - p.D) - Abs(p.K - p.D) * Pow2(0 - p.gamma))

\* Variant: the inversion with the sign of its logarithmic term flipped,
\* t_target = lam + (1/k) * log(...)
t_target_vs_lam_flipped(p, target_T) == Sgn(p.k) * log_sign(p, target_T)

\* Sign of t_target - lam for t_target = lam - (1/k) * math.log(...): the
\* order of eta_finish and eta_wrap when both come from the same fit
t_target_vs_lam(p, target_T) == (0 - Sgn(p.k)) * log_sign(p, target_T)

\* eta_finish is start_time + t_target hours re-anchored at t0; t_target is
\* a transcendental function of (popt, target_T), kept symbolic.
eta_finish_value(p, t0, target_T) == [anchor |-> t0, popt |-> p, target |-> target_T]

\* Variant: the residuals taken over the fitting window only
rmse_points_window(h, t0) ==
    [i \in 1..Len(SelectSeq(h, LAMBDA d : d.time >= t0 /\ d.meat <= Stage1MaxF)) |->
        <<SelectSeq(h, LAMBDA d : d.time >= t0 /\ d.meat <= Stage1MaxF)[i].time - t0,
          SelectSeq(h, LAMBDA d : d.time >= t0 /\ d.meat <= Stage1MaxF)[i].meat>>]

\* full_t / full_y: every sample of the buffer, elapsed time from t0
rmse_points(h, t0) == [i \in 1..Len(h) |-> <<h[i].time - t0, h[i].meat>>]

\* math.exp(-k * (ti - lam)) inside _logistic5 overflows for some sample
rmse_exc(p, h, t0) ==
    IF \E i \in 1..Len(h) :
           (0 - p.k) * ((h[i].time - t0) - p.lam * SecondsPerHour) > ExpOverflowScaled
    THEN "OverflowError" ELSE "none"

\* model_rmse = sqrt(mean((y - f(t))^2)) over rmse_points, kept symbolic
rmse_value(p, h, t0) == [popt |-> p, points |-> rmse_points(h, t0)]

\* The four derived fields of the conversation
ModelFields(mp, ew, ef, rm) ==
    [model_params |-> mp, eta_wrap |-> ew, eta_finish |-> ef, model_rmse |-> rm]

\* Outcome of the external solver call curve_fit(...)
SolverReturns(p) == [exc |-> "none", popt |-> p]
SolverRaises(e)  == [exc |-> e, popt |-> Popt(0, 0, 0, 0, 0)]

\* The try block, lines 491-518, statement by statement.  Each step gives
\* the fields as the block leaves them and the exception that ended it
\* ("none": ran to its end).
\* lines 512-518: RMSE on full history
fit_rmse_step(f, p, h, t0) ==
    IF rmse_exc(p, h, t0) # "none"
    THEN [f |-> f, exc |-> rmse_exc(p, h, t0)]
    ELSE [f |-> [f EXCEPT !.model_rmse = Some(rmse_value(p, h, t0))],
          exc |-> "none"]

\* lines 502-510: inverse 5PL, or eta_finish = None when target_T >= K
fit_finish_step(f, p, h, t0, target_T) ==
    IF target_T < p.K
    THEN IF eta_finish_exc(p, target_T) # "none"
         THEN [f |-> f, exc |-> eta_finish_exc(p, target_T)]
         ELSE fit_rmse_step(
                  [f EXCEPT !.eta_finish = Some(eta_finish_value(p, t0, target_T))],
                  p, h, t0)
    ELSE fit_rmse_step([f EXCEPT !.eta_finish = None], p, h, t0)

\* lines 499-500: eta_wrap
fit_wrap_step(f, p, h, t0, target_T) ==
    IF eta_wrap_exc(p, t0) # "none"
    THEN [f |-> f, exc |-> eta_wrap_exc(p, t0)]
    ELSE fit_finish_step([f EXCEPT !.eta_wrap = Some(eta_wrap_value(p, t0))],
                         p, h, t0, target_T)

\* lines 491-497: the solver call and self.model_params = popt
fit_try_body(f, h, t0, target_T, out) ==
    IF out.exc # "none" THEN [f |-> f, exc |-> out.exc]
    ELSE fit_wrap_step([f EXCEPT !.model_params = Some(out.popt)],
                       out.popt, h, t0, target_T)

\* except Exception: pass
ExceptionClasses == {"RuntimeError", "TypeError", "ValueError",
                     "OverflowError", "ZeroDivisionError"}
\* Variant: except RuntimeError (the solver's non-convergence) only
CaughtOnlyRuntimeError(e) == e = "RuntimeError"

CaughtByExcept(e) == e \in ExceptionClasses

\* try: ... except Exception: pass, applied to the outcome r of the body
fit_except(r) ==
    [f |-> r.f,
     exc |-> IF r.exc # "none" /\ ~CaughtByExcept(r.exc) THEN r.exc ELSE "none",
     solved |-> TRUE]

\* _update_model_estimate: the fields after the call, the exception that
\* leaves the call, and whether the solver was called.
update_model_estimate(f, h, t_now, target_T, cf, out) ==
    IF cf = "None" THEN [f |-> f, exc |-> "none", solved |-> FALSE]
    ELSE IF Len(stage1_pts(h, t_now)) < MinFitPoints
    THEN [f |-> f, exc |-> "none", solved |-> FALSE]
    ELSE fit_except(fit_try_body(f, h, stage1_pts(h, t_now)[1].time, target_T, out))

\* ------------------------------------------------------------------------
\* The conversation object as a record; every method below maps a record
\* `s` (self together with the clock and the module global curve_fit) to
\* the record after the call.
\* ------------------------------------------------------------------------
SmsCooldownS       == 900    \* BBQ_SMS_COOLDOWN default
DisplayIntervalS   == 120    \* BBQ_DISPLAY_INTERVAL default
ProactiveIntervalS == 300    \* BBQ_PROACTIVE_INTERVAL default
SaveIntervalS      == 60     \* BBQ_SAVE_INTERVAL default
UserActionsMaxlen  == 10     \* deque(maxlen=10)
SecondsPerDay      == 86400  \* timedelta.seconds is the part below one day
PitCrashBelow      == 75     \* pit < target_pit - 75
PitSpikeAbove      == 50     \* pit > target_pit + 50
StallSoonLowF      == 148    \* 148 < meat < 152
StallSoonHighF     == 152
StallSoonSpreadF   == 3      \* max - min < 3
StallSoonWindow    == 10     \* len(temp_history) > 10, [-10:]
DoneSoonLowF       == 195    \* 195 < meat < 200
DoneSoonHighF      == 200
TrendWindow        == 20     \* len(temp_history) < 20, [-20:]
TrendAvgWindow     == 5      \* pit_temps[:5], pit_temps[-5:]
TrendMinTemps      == 10     \* len(pit_temps) >= 10
RecoveredBelowF    == 5      \* decline < 5
DeclineAlertF      == 15     \* decline >= 15
DeclineSevereF     == 25     \* decline >= 25
DeclineRecoveryF   == 20     \* decline >= 20
FuelQuietS         == 900    \* minutes_since_fuel < 15
FuelContextS       == 1200   \* time_diff < 20
FuelContextLast    == 5      \* recent_user_actions[-5:]
SummaryMinSamples  == 2      \* len(temp_history) < 2
SummaryWindow      == 20     \* [-20:]
MeatRateFactor     == 3      \* (meat_t[-1] - meat_t[0]) * 3

SmsTypes == {"pit_crash", "pit_spike", "stall", "done_soon", "done"}
SmsResponses == {"success", "failure", "error"}

\* The texts that reach handle_user_input
MsgCrash   == "pit temp crashed, what to do?"
MsgDecline == "pit temp declining steadily, should I add fuel?"
MsgAdded   == "just added 10 briquettes"
MsgWrapped == "wrapped the brisket"
MsgFire    == "the fire looks weak"

\* any(keyword in user_input.lower() for keyword in fuel_keywords), line 563
HasFuelKeyword(msg) == msg \in {MsgDecline, MsgAdded}

\* the keyword list of _should_alert_about_temp_decline, line 416
HasFuelContextKeyword(msg) == msg \in {MsgDecline, MsgAdded, MsgFire}

\* save_session: json.dump fails on a NumPy array or a datetime, after it
\* has already written the fields that precede them.
SessionSnapshot(s) ==
    [target_pit |-> s.target_pit, target_meat |-> s.target_meat,
     start_time |-> s.start_time, last_update |-> s.last_update,
     ambient_temp |-> s.ambient_temp, n_messages |-> s.n_messages,
     temp_history |-> s.temp_history, alert_states |-> s.alert_states,
     last_sms_time |-> s.last_sms_time,
     recent_user_actions |-> s.recent_user_actions,
     last_fuel_mention |-> s.last_fuel_mention,
     temp_recovery_in_progress |-> s.temp_recovery_in_progress,
     last_display_time |-> s.last_display_time,
     last_proactive_check |-> s.last_proactive_check,
     f |-> s.f]

JsonSerializable(f) ==
    f.model_params = None /\ f.eta_wrap = None /\ f.eta_finish = None

save_session(s) ==
    [s EXCEPT !.session_file =
        IF JsonSerializable(s.f)
        THEN [status |-> "saved", data |-> Some(SessionSnapshot(s))]
        ELSE [status |-> "partial", data |-> None]]

\* load_session(api_key, session_file, phone) at the clock reading t_now:
\* None when the file is missing (FileNotFoundError) or was cut short by a
\* failed json.dump (json.load raises); otherwise the restored attributes,
\* the phone taken from the argument and the save timer reset.
restored_session(d, ph, t_now) ==
    [phone |-> ph,
     target_pit |-> d.target_pit, target_meat |-> d.target_meat,
     start_time |-> d.start_time, last_update |-> d.last_update,
     ambient_temp |-> d.ambient_temp, n_messages |-> d.n_messages,
     temp_history |-> d.temp_history, alert_states |-> d.alert_states,
     last_sms_time |-> d.last_sms_time,
     recent_user_actions |-> d.recent_user_actions,
     last_fuel_mention |-> d.last_fuel_mention,
     temp_recovery_in_progress |-> d.temp_recovery_in_progress,
     last_display_time |-> d.last_display_time,
     last_proactive_check |-> d.last_proactive_check,
     f |-> d.f,
     last_save_time |-> Some(t_now)]

load_session(file, ph, t_now) ==
    IF file.status = "saved"
    THEN Some(restored_session(Get(file.data), ph, t_now))
    ELSE None

\* (datetime.now() - last).seconds
TimedeltaSeconds(a, b) == (a - b) % SecondsPerDay

\* Variant: no cooldown, every call with a phone posts
SmsPostsPhoneOnly(s, alert_type) == s.phone # None

\* Does send_sms(alert_type) reach requests.post?
SmsPosts(s, alert_type) ==
    /\ s.phone # None
    /\ LET last == s.last_sms_time[alert_type]
       IN  ~(last # None /\ TimedeltaSeconds(s.now, Get(last)) < SmsCooldownS)

\* lines 278-279: last_sms_time is set when the gateway reports success
sms_outcome(s, alert_type, resp) ==
    IF SmsPosts(s, alert_type) /\ resp[alert_type] = "success"
    THEN [s EXCEPT !.last_sms_time[alert_type] = Some(s.now)]
    ELSE s

\* send_sms(message, alert_type).  sms_calls and sms_posts observe the call:
\* the alert types send_sms was invoked for, and those that reached
\* requests.post.
send_sms(s, alert_type, resp) ==
    [sms_outcome(s, alert_type, resp) EXCEPT
        !.sms_calls = @ \cup {alert_type},
        !.sms_posts = IF SmsPosts(s, alert_type) THEN @ \cup {alert_type} ELSE @]

\* Variant: the ETA part shown as soon as eta_wrap is set
eta_part_wrap_only(f) ==
    IF f.eta_wrap # None
    THEN Some([wrap |-> Get(f.eta_wrap), finish |-> f.eta_finish,
               rmse |-> f.model_rmse])
    ELSE None

\* lines 545-550: the ETA part of the summary
eta_part(f) ==
    IF f.eta_finish # None /\ f.eta_wrap # None
    THEN Some([wrap |-> Get(f.eta_wrap), finish |-> Get(f.eta_finish),
               rmse |-> f.model_rmse])
    ELSE None

\* get_temp_summary: the parts of the text
get_temp_summary(s) ==
    IF Len(s.temp_history) < SummaryMinSamples
    THEN [text |-> "no temp data yet"]
    ELSE
        LET recent == LastN(s.temp_history, SummaryWindow)
            n      == Len(recent)
        IN  [text      |-> "Temps",
             pit_now   |-> recent[n].pit,
             pit_trend |-> recent[n].pit - recent[1].pit,
             meat_now  |-> recent[n].meat,
             meat_rate |-> (recent[n].meat - recent[1].meat) * MeatRateFactor,
             ambient   |-> IF s.ambient_temp # None /\ Get(s.ambient_temp) # 0
                           THEN s.ambient_temp ELSE None,
             eta       |-> eta_part(s.f)]

\* deque(maxlen=10).append
AppendMaxlen(q, x, maxlen) == LastN(Append(q, x), maxlen)

\* _ask_claude(msg): the user message is appended, then the reply if the
\* API call succeeds (below the summarisation thresholds of 50 messages)
ask_claude(s, llm_ok) ==
    [s EXCEPT !.n_messages = s.n_messages + 1 + (IF llm_ok THEN 1 ELSE 0)]

\* lines 555-560: recent_user_actions.append
track_user_action(s, msg) ==
    [s EXCEPT !.recent_user_actions =
        AppendMaxlen(s.recent_user_actions, [time |-> s.now, message |-> msg],
                     UserActionsMaxlen)]

\* lines 562-566: fuel-related mentions
track_fuel_mention(s, msg) ==
    IF HasFuelKeyword(msg)
    THEN [s EXCEPT !.last_fuel_mention = Some(s.now),
                   !.temp_recovery_in_progress = TRUE]
    ELSE s

handle_user_input(s, msg, llm_ok) ==
    save_session(ask_claude(track_fuel_mention(track_user_action(s, msg), msg),
                            llm_ok))

\* Variant: the crash alert raised on every sample below the threshold
pit_crash_check_level(s, data, resp, llm_ok) ==
    IF data.pit < s.target_pit - PitCrashBelow
    THEN handle_user_input(
             send_sms([s EXCEPT !.alert_states.pit_crash = TRUE],
                      "pit_crash", resp),
             MsgCrash, llm_ok)
    ELSE [s EXCEPT !.alert_states.pit_crash = FALSE]

\* Variant: a crash flag that is never reset once set
pit_crash_check_latched(s, data, resp, llm_ok) ==
    IF data.pit < s.target_pit - PitCrashBelow /\ ~s.alert_states.pit_crash
    THEN handle_user_input(
             send_sms([s EXCEPT !.alert_states.pit_crash = TRUE],
                      "pit_crash", resp),
             MsgCrash, llm_ok)
    ELSE s

\* lines 342-348
pit_crash_check(s, data, resp, llm_ok) ==
    IF data.pit < s.target_pit - PitCrashBelow
    THEN IF ~s.alert_states.pit_crash
         THEN handle_user_input(
                  send_sms([s EXCEPT !.alert_states.pit_crash = TRUE],
                           "pit_crash", resp),
                  MsgCrash, llm_ok)
         ELSE s
    ELSE [s EXCEPT !.alert_states.pit_crash = FALSE]

\* lines 350-355
pit_spike_check(s, data, resp) ==
    IF data.pit > s.target_pit + PitSpikeAbove
    THEN IF ~s.alert_states.pit_spike
         THEN send_sms([s EXCEPT !.alert_states.pit_spike = TRUE],
                       "pit_spike", resp)
         ELSE s
    ELSE [s EXCEPT !.alert_states.pit_spike = FALSE]

\* max(recent_meat) - min(recent_meat) over the last 10 samples
RecentMeatSpread(h) ==
    SeqMax([i \in 1..StallSoonWindow |-> LastN(h, StallSoonWindow)[i].meat])
    - SeqMin([i \in 1..StallSoonWindow |-> LastN(h, StallSoonWindow)[i].meat])

\* lines 357-364
stall_approaching_check(s, data, resp) ==
    IF StallSoonLowF < data.meat /\ data.meat < StallSoonHighF
       /\ Len(s.temp_history) > StallSoonWindow
    THEN IF RecentMeatSpread(s.temp_history) < StallSoonSpreadF
            /\ ~s.alert_states.stall_approaching
         THEN send_sms([s EXCEPT !.alert_states.stall_approaching = TRUE],
                       "stall", resp)
         ELSE s
    ELSE [s EXCEPT !.alert_states.stall_approaching = FALSE]

\* lines 367-368
done_soon_check(s, data, resp) ==
    IF DoneSoonLowF < data.meat /\ data.meat < DoneSoonHighF
    THEN send_sms(s, "done_soon", resp) ELSE s

\* lines 369-370
done_check(s, data, resp) ==
    IF data.meat >= s.target_meat THEN send_sms(s, "done", resp) ELSE s

check_critical_conditions(s, data, resp, llm_ok) ==
    done_check(
        done_soon_check(
            stall_approaching_check(
                pit_spike_check(pit_crash_check(s, data, resp, llm_ok), data, resp),
                data, resp),
            data, resp),
        data, resp)

\* Variant: the decision without the 15 minutes of quiet after a fuel
\* mention
should_alert_without_quiet(s, diff5) ==
    IF \E i \in 1..Len(LastN(s.recent_user_actions, FuelContextLast)) :
           /\ s.now - LastN(s.recent_user_actions, FuelContextLast)[i].time
                  < FuelContextS
           /\ HasFuelContextKeyword(
                  LastN(s.recent_user_actions, FuelContextLast)[i].message)
    THEN diff5 >= DeclineSevereF * TrendAvgWindow
    ELSE IF s.temp_recovery_in_progress
    THEN diff5 >= DeclineRecoveryF * TrendAvgWindow
    ELSE diff5 >= DeclineAlertF * TrendAvgWindow

\* _should_alert_about_temp_decline; diff5 is 5 * decline
should_alert_about_temp_decline(s, diff5) ==
    IF s.last_fuel_mention # None
       /\ s.now - Get(s.last_fuel_mention) < FuelQuietS
    THEN FALSE
    ELSE IF \E i \in 1..Len(LastN(s.recent_user_actions, FuelContextLast)) :
                /\ s.now - LastN(s.recent_user_actions, FuelContextLast)[i].time
                       < FuelContextS
                /\ HasFuelContextKeyword(
                       LastN(s.recent_user_actions, FuelContextLast)[i].message)
    THEN diff5 >= DeclineSevereF * TrendAvgWindow
    ELSE IF s.temp_recovery_in_progress
    THEN diff5 >= DeclineRecoveryF * TrendAvgWindow
    ELSE diff5 >= DeclineAlertF * TrendAvgWindow

\* [d['pit'] for d in recent], recent the last 20 samples
RecentPits(h) == [i \in 1..Len(LastN(h, TrendWindow)) |-> LastN(h, TrendWindow)[i].pit]

\* 5 * (early_avg - late_avg)
PitDecline5(h) ==
    SeqSum(FirstN(RecentPits(h), TrendAvgWindow))
    - SeqSum(LastN(RecentPits(h), TrendAvgWindow))

\* lines 388-393: recovery after a fuel addition
recovery_check(s, diff5) ==
    IF s.temp_recovery_in_progress /\ diff5 < RecoveredBelowF * TrendAvgWindow
    THEN [s EXCEPT !.temp_recovery_in_progress = FALSE]
    ELSE s

\* lines 396-400
decline_alert(s, diff5, llm_ok) ==
    IF diff5 >= DeclineAlertF * TrendAvgWindow
       /\ should_alert_about_temp_decline(s, diff5)
    THEN handle_user_input(s, MsgDecline, llm_ok)
    ELSE s

check_gradual_trends(s, llm_ok) ==
    IF Len(s.temp_history) < TrendWindow THEN s
    ELSE decline_alert(recovery_check(s, PitDecline5(s.temp_history)),
                       PitDecline5(s.temp_history), llm_ok)

\* Variant: a bounded deque(maxlen=10), which evicts the oldest sample
append_sample_maxlen(h, data) == LastN(Append(h, data), 10)

\* self.temp_history.append(data) on deque()
append_sample(h, data) == Append(h, data)

\* Variant: a read that consumes the deque (popping instead of copying)
deque_after_drain(h) == <<>>

\* Reading the buffer (iteration, list(self.temp_history)) leaves the deque
\* as it is.
deque_after_read(h) == h

AfterRead(t) == [t EXCEPT !.temp_history = deque_after_read(t.temp_history)]

\* process_temp_update(data), statement by statement.  env: the outcomes of
\* the external calls made on the way (solver, SMS gateway per alert type,
\* the two chat requests).
\* lines 609-610
ingest(s, data) ==
    [s EXCEPT !.temp_history = append_sample(s.temp_history, data),
              !.last_update = Some(data.time)]

\* lines 620-627: periodic display
display_step(s) ==
    IF s.last_display_time = None
       \/ s.now - Get(s.last_display_time) >= DisplayIntervalS
    THEN [s EXCEPT !.last_display_time = Some(s.now)]
    ELSE s

\* lines 632-634: proactive monitoring
proactive_step(s, llm_ok) ==
    IF s.now - s.last_proactive_check >= ProactiveIntervalS
    THEN [check_gradual_trends(s, llm_ok) EXCEPT !.last_proactive_check = s.now]
    ELSE s

\* lines 637-640: periodic auto-save
autosave_step(s) ==
    IF s.last_save_time = None \/ s.now - Get(s.last_save_time) >= SaveIntervalS
    THEN [save_session(s) EXCEPT !.last_save_time = Some(s.now)]
    ELSE s

\* lines 614-640, reached when the fit attempt returned
after_fit(s, data, env) ==
    autosave_step(
        proactive_step(
            check_critical_conditions(display_step(s), data, env.sms, env.llm1),
            env.llm2))

\* line 612 and what follows it: fit is the outcome of _update_model_estimate
\* on the buffer that holds the new sample.  Result: the record after the
\* call, the exception leaving it, whether the solver ran, whether the
\* handler reached its last statement.
continue_after_fit(s, data, env, fit) ==
    IF fit.exc # "none"
    THEN [s |-> AfterRead([s EXCEPT !.f = fit.f]),
          exc |-> fit.exc, solved |-> fit.solved, done |-> FALSE]
    ELSE [s |-> after_fit(AfterRead([s EXCEPT !.f = fit.f]), data, env),
          exc |-> "none", solved |-> fit.solved, done |-> TRUE]

\* Variant: the fit attempted without looking at the import guard
fit_ignoring_guard(s, out) ==
    update_model_estimate(s.f, s.temp_history, s.now, s.target_meat,
                          "scipy", out)

fit_after_ingest(s, out) ==
    update_model_estimate(s.f, s.temp_history, s.now, s.target_meat,
                          s.curve_fit, out)

process_temp_update(s, data, env) ==
    continue_after_fit(ingest(s, data), data, env,
                       fit_after_ingest(ingest(s, data), env.solver))

\* ------------------------------------------------------------------------
\* State, construction
\* ------------------------------------------------------------------------
Self ==
    [now |-> now, curve_fit |-> curve_fit, phone |-> phone,
     target_pit |-> target_pit, target_meat |-> target_meat,
     start_time |-> start_time,
     temp_history |-> temp_history, last_update |-> last_update,
     ambient_temp |-> ambient_temp,
     f |-> ModelFields(model_params, eta_wrap, eta_finish, model_rmse),
     alert_states |-> alert_states, last_sms_time |-> last_sms_time,
     n_messages |-> n_messages, recent_user_actions |-> recent_user_actions,
     last_fuel_mention |-> last_fuel_mention,
     temp_recovery_in_progress |-> temp_recovery_in_progress,
     last_display_time |-> last_display_time,
     last_proactive_check |-> last_proactive_check,
     last_save_time |-> last_save_time,
     session_file |-> session_file,
     sms_calls |-> {}, sms_posts |-> {}]

\* The attributes of self (and the session file) take the values of record t
Becomes(t) ==
    /\ temp_history' = t.temp_history
    /\ last_update' = t.last_update
    /\ ambient_temp' = t.ambient_temp
    /\ model_params' = t.f.model_params
    /\ eta_wrap' = t.f.eta_wrap
    /\ eta_finish' = t.f.eta_finish
    /\ model_rmse' = t.f.model_rmse
    /\ alert_states' = t.alert_states
    /\ last_sms_time' = t.last_sms_time
    /\ n_messages' = t.n_messages
    /\ recent_user_actions' = t.recent_user_actions
    /\ last_fuel_mention' = t.last_fuel_mention
    /\ temp_recovery_in_progress' = t.temp_recovery_in_progress
    /\ last_display_time' = t.last_display_time
    /\ last_proactive_check' = t.last_proactive_check
    /\ last_save_time' = t.last_save_time
    /\ session_file' = t.session_file

config_vars == <<curve_fit, phone, target_pit, target_meat, start_time>>
self_vars == <<temp_history, last_update, ambient_temp,
               model_params, eta_wrap, eta_finish, model_rmse,
               alert_states, last_sms_time,
               n_messages, recent_user_actions, last_fuel_mention,
               temp_recovery_in_progress,
               last_display_time, last_proactive_check, last_save_time>>

run_vars == <<data_queue, main, produced>>

\* The main thread in run(): the statement it stands at, the sample in
\* hand, the fit attempts made on it, and the line last read from stdin
MainAt(pc, data, fits) == [pc |-> pc, data |-> data, fits |-> fits, line |-> ""]

NoFields == ModelFields(None, None, None, None)
NoOutcome == [exc |-> "unused", popt |-> Popt(0, 0, 0, 0, 0)]

\* Observation of a call: the operation, the number of state-changing calls
\* so far, the sample passed, the model fields before the call, and the
\* call's outcome
Call(op, n, data, pre, r) ==
    [op |-> op, n |-> n, data |-> data, pre |-> pre,
     exc |-> r.exc, solved |-> r.solved, done |-> r.done,
     out |-> r.out, args |-> r.args, stall |-> r.stall, summary |-> r.summary,
     ret |-> r.ret, sms_calls |-> r.sms_calls, sms_posts |-> r.sms_posts]

NoResult ==
    [exc |-> "none", solved |-> FALSE, done |-> TRUE, out |-> NoOutcome,
     args |-> None, stall |-> FALSE, summary |-> None, ret |-> None,
     sms_calls |-> {}, sms_posts |-> {}]

\* A buffer of n samples at a fixed cadence, temperatures changing linearly
Ramp(n, step, pit0, dpit, meat0, dmeat) ==
    [i \in 1..n |-> Sample((i - 1) * step,
                           pit0 + (i - 1) * dpit,
                           meat0 + (i - 1) * dmeat)]

DefaultTargetPit  == 225
DefaultTargetMeat == 203

\* __init__ at time 0 (fresh), or load_session at time t_last of a session
\* saved with the buffer hist; cf is the module global curve_fit, ph the
\* phone, nm the number of chat messages so far.
ConstructedAt(hist, t_last, fresh, cf, ph, nm) ==
    [now |-> t_last, curve_fit |-> cf, phone |-> ph,
     target_pit |-> DefaultTargetPit, target_meat |-> DefaultTargetMeat,
     start_time |-> 0,
     temp_history |-> hist,
     last_update |-> IF fresh THEN None ELSE Some(t_last),
     ambient_temp |-> None,
     f |-> NoFields,
     alert_states |-> [pit_crash |-> FALSE, pit_spike |-> FALSE,
                       stall_approaching |-> FALSE],
     last_sms_time |-> [t \in SmsTypes |-> None],
     n_messages |-> nm,
     recent_user_actions |-> <<>>,
     last_fuel_mention |-> None,
     temp_recovery_in_progress |-> FALSE,
     last_display_time |-> IF fresh THEN None ELSE Some(t_last),
     last_proactive_check |-> t_last,
     last_save_time |-> IF fresh THEN None ELSE Some(t_last),
     session_file |-> [status |-> "absent", data |-> None],
     sms_calls |-> {}, sms_posts |-> {}]

Constructed(hist, cf, ph, nm) ==
    IF hist = <<>>
    THEN ConstructedAt(hist, 0, TRUE, cf, ph, nm)
    ELSE save_session(ConstructedAt(hist, hist[Len(hist)].time, FALSE, cf, ph, nm))

InitAs(t) ==
    /\ now = t.now
    /\ curve_fit = t.curve_fit
    /\ phone = t.phone
    /\ target_pit = t.target_pit
    /\ target_meat = t.target_meat
    /\ start_time = t.start_time
    /\ temp_history = t.temp_history
    /\ last_update = t.last_update
    /\ ambient_temp = t.ambient_temp
    /\ model_params = t.f.model_params
    /\ eta_wrap = t.f.eta_wrap
    /\ eta_finish = t.f.eta_finish
    /\ model_rmse = t.f.model_rmse
    /\ alert_states = t.alert_states
    /\ last_sms_time = t.last_sms_time
    /\ n_messages = t.n_messages
    /\ recent_user_actions = t.recent_user_actions
    /\ last_fuel_mention = t.last_fuel_mention
    /\ temp_recovery_in_progress = t.temp_recovery_in_progress
    /\ last_display_time = t.last_display_time
    /\ last_proactive_check = t.last_proactive_check
    /\ last_save_time = t.last_save_time
    /\ session_file = t.session_file
    /\ loaded = t.temp_history
    /\ passed = <<>>
    /\ call = Call("init", 0, None, NoFields, NoResult)
    /\ data_queue = <<>>
    /\ main = MainAt("poll", None, 0)
    /\ produced = <<>>

\* ------------------------------------------------------------------------
\* Environment: outcomes of the external calls
\* ------------------------------------------------------------------------
\* Parameter tuples the solver may hand back: a usable fit; a usable fit
\* with an asymmetric curve (gamma = 2); an asymptote
\* below the target; a baseline above the target (logarithm of a negative
\* number); a zero rate; a rate that overflows exp; an asymptote below the
\* target with an inflection time beyond the datetime range.
Popts ==
    { Popt(250, 1, 1, 100, 1),
      Popt(400, 1, 1, 100, 2),
      Popt(200, 1, 1, 100, 1),
      Popt(250, 1, 1, 210, 1),
      Popt(250, 0, 1, 100, 1),
      Popt(250, 0 - 1000, 0, 100, 1),
      Popt(200, 1, 100000000, 100, 1) }

SolverOutcomes ==
    {SolverRaises("RuntimeError"), SolverRaises("TypeError")}
        \cup {SolverReturns(p) : p \in Popts}

\* The solver's outcome matters only when line 478 lets the fit reach it
SolverEnv(outcomes, h, t_now) ==
    IF Len(stage1_pts(h, t_now)) >= MinFitPoints
    THEN outcomes
    ELSE {SolverRaises("RuntimeError")}

\* The alert types check_critical_conditions can send for this sample
SmsTriggered(data) ==
    (IF data.pit < target_pit - PitCrashBelow THEN {"pit_crash"} ELSE {})
    \cup (IF data.pit > target_pit + PitSpikeAbove THEN {"pit_spike"} ELSE {})
    \cup (IF StallSoonLowF < data.meat /\ data.meat < StallSoonHighF
          THEN {"stall"} ELSE {})
    \cup (IF DoneSoonLowF < data.meat /\ data.meat < DoneSoonHighF
          THEN {"done_soon"} ELSE {})
    \cup (IF data.meat >= target_meat THEN {"done"} ELSE {})

\* Gateway responses, one per alert type that can be sent
SmsEnv(data) ==
    {r \in [SmsTypes -> SmsResponses] :
        \A t \in SmsTypes :
            (phone = None \/ t \notin SmsTriggered(data)) => r[t] = "failure"}

\* Chat API outcomes (TRUE: a reply came back)
LlmEnv(needed) == IF needed THEN BOOLEAN ELSE {TRUE}

Env(out, sms, l1, l2) == [solver |-> out, sms |-> sms, llm1 |-> l1, llm2 |-> l2]

LastTime == IF temp_history = <<>> THEN now ELSE temp_history[Len(temp_history)].time

\* ------------------------------------------------------------------------
\* Operations
\* ------------------------------------------------------------------------
\* The step of a call that gave r on the record s (s.now the clock reading)
Handled(op, s, data, out, r) ==
    /\ now' = s.now
    /\ Becomes(r.s)
    /\ passed' = IF op = "process_temp_update" THEN Append(passed, Get(data))
                 ELSE passed
    /\ call' = Call(op, call.n + 1, data, s.f,
                    [NoResult EXCEPT
                        !.exc = r.exc, !.solved = r.solved, !.done = r.done,
                        !.out = IF r.solved THEN out ELSE NoOutcome,
                        !.args = IF r.solved
                                 THEN Some(solver_args(r.s.temp_history, s.now))
                                 ELSE None,
                        !.sms_calls = r.s.sms_calls,
                        !.sms_posts = r.s.sms_posts])
    /\ UNCHANGED <<config_vars, loaded, run_vars>>

\* A sample arrives at the clock reading max(now, data.time) and is handled
ProcessTempUpdate(inputs, bound) ==
    /\ call.n < bound
    /\ \E data \in inputs :
       \E out \in SolverEnv(SolverOutcomes, Append(temp_history, data),
                            Max2(now, data.time)),
          sms \in SmsEnv(data),
          l1 \in LlmEnv(data.pit < target_pit - PitCrashBelow),
          l2 \in LlmEnv(Len(temp_history) + 1 >= TrendWindow) :
           Handled("process_temp_update",
                   [Self EXCEPT !.now = Max2(now, data.time)], Some(data), out,
                   process_temp_update([Self EXCEPT !.now = Max2(now, data.time)],
                                       data, Env(out, sms, l1, l2)))

\* The outcome of _update_model_estimate as a call on its own
fit_alone(s, fit) ==
    [s |-> AfterRead([s EXCEPT !.f = fit.f]),
     exc |-> fit.exc, solved |-> fit.solved, done |-> TRUE]

UpdateModelEstimate(bound) ==
    /\ call.n < bound
    /\ \E out \in SolverOutcomes :
           Handled("_update_model_estimate", Self, None, out,
                   fit_alone(Self, fit_after_ingest(Self, out)))

\* A call that changes nothing but self: the record t after it
Called(op, n, data, t, res) ==
    /\ Becomes(t)
    /\ call' = Call(op, n, data, Self.f,
                    [res EXCEPT !.sms_calls = t.sms_calls,
                                !.sms_posts = t.sms_posts])
    /\ UNCHANGED <<now, config_vars, loaded, passed, run_vars>>

\* detect_stall_mathematical()
DetectStall ==
    Called("detect_stall_mathematical", call.n, None, AfterRead(Self),
           [NoResult EXCEPT
               !.exc = detect_stall_mathematical(temp_history).exc,
               !.stall = detect_stall_mathematical(temp_history).val])

\* get_temp_summary()
GetTempSummary ==
    Called("get_temp_summary", call.n, None, AfterRead(Self),
           [NoResult EXCEPT !.summary = Some(get_temp_summary(Self))])

\* check_critical_conditions(data) called on its own
CheckCriticalConditions(inputs, bound) ==
    /\ call.n < bound
    /\ \E data \in inputs :
       \E sms \in SmsEnv(data),
          l1 \in LlmEnv(data.pit < target_pit - PitCrashBelow) :
           Called("check_critical_conditions", call.n + 1, Some(data),
                  AfterRead(check_critical_conditions(Self, data, sms, l1)),
                  NoResult)

\* check_gradual_trends(data) called on its own
CheckGradualTrends(bound) ==
    /\ call.n < bound
    /\ \E l2 \in LlmEnv(Len(temp_history) >= TrendWindow) :
           Called("check_gradual_trends", call.n + 1, None,
                  AfterRead(check_gradual_trends(Self, l2)), NoResult)

\* A line typed by the user reaches handle_user_input
HandleUserInput(msgs, bound) ==
    /\ call.n < bound
    /\ \E msg \in msgs, ok \in BOOLEAN :
           Called("handle_user_input", call.n + 1, None,
                  handle_user_input(Self, msg, ok), NoResult)

\* _logistic5 evaluated at t = lam
Logistic5AtInflection(params) ==
    \E p \in params :
        Called("_logistic5", call.n,
               Some([t_s |-> p.lam * SecondsPerHour, popt |-> p]), Self,
               [NoResult EXCEPT
                   !.exc = logistic5_exc(p.lam * SecondsPerHour, p),
                   !.ret = IF logistic5_exc(p.lam * SecondsPerHour, p) = "none"
                           THEN Some(logistic5_value(p.lam * SecondsPerHour, p))
                           ELSE None])

\* data['temperature_C'] * 9/5 + 32, for a reading of c9/9 degrees Celsius
celsius_to_f(c9) == c9 \div 5 + 32

\* Ambient readings in ninths of a degree Celsius: -17.78 C, 0 C, 20 C
AmbientReadingsC9 == {0 - 160, 0, 180}

\* temp_reader_thread receives a LaCrosse-TX141Bv3 line
ReadAmbient(readings, bound) ==
    /\ call.n < bound
    /\ \E c9 \in readings :
           Called("temp_reader_thread", call.n + 1, None,
                  [Self EXCEPT !.ambient_temp = Some(celsius_to_f(c9))],
                  NoResult)

\* save_session() called on its own (on exit, or by a caller)
SaveSession(bound) ==
    /\ call.n < bound
    /\ Called("save_session", call.n + 1, None, save_session(Self), NoResult)

\* load_session(api_key, session_file, phone) on the file as it is now
LoadSession ==
    \E ph \in {None, Some("+15550100")} :
        Called("load_session", call.n, None, Self,
               [NoResult EXCEPT !.ret = load_session(session_file, ph, now)])

\* The reader thread, lines 589-596: a Thermopro-TP12 line is parsed and
\* put on the queue.  Result: the buffer and the queue after it.
reader_parsed_direct(h, q, d) == [temp_history |-> Append(h, d), data_queue |-> q]

reader_parsed(h, q, d) == [temp_history |-> h, data_queue |-> Append(q, d)]

ReaderPut(inputs, bound) ==
    /\ Len(produced) < bound
    /\ \E d \in inputs :
        /\ temp_history' = reader_parsed(temp_history, data_queue, d).temp_history
        /\ data_queue' = reader_parsed(temp_history, data_queue, d).data_queue
        /\ produced' = Append(produced, d)
        /\ call' = Call("temp_reader_thread", call.n, Some(d), Self.f, NoResult)
    /\ UNCHANGED <<now, config_vars, last_update, ambient_temp,
                   model_params, eta_wrap, eta_finish, model_rmse,
                   alert_states, last_sms_time, n_messages,
                   recent_user_actions, last_fuel_mention,
                   temp_recovery_in_progress, last_display_time,
                   last_proactive_check, last_save_time,
                   session_file, loaded, passed, main>>

\* self.data_queue.get(): the oldest sample leaves the queue
queue_get_peek(q) == [item |-> Head(q), rest |-> q]

queue_get(q) == [item |-> Head(q), rest |-> Tail(q)]

\* The statements of process_temp_update in the order they run: lines
\* 609-610 (append), 612 (fit), 614-640 (display, checks, trends, save)
next_pc_checks_first(pc) ==
    IF pc = "append" THEN "checks" ELSE IF pc = "checks" THEN "fit" ELSE "poll"

next_pc(pc) ==
    IF pc = "append" THEN "fit" ELSE IF pc = "fit" THEN "checks" ELSE "poll"

\* A step of the main thread that leaves self as record t
MainStep(op, data, t, res, m2) ==
    /\ now' = t.now
    /\ Becomes(t)
    /\ call' = Call(op, call.n, data, Self.f,
                    [res EXCEPT !.sms_calls = t.sms_calls,
                                !.sms_posts = t.sms_posts])
    /\ main' = m2
    /\ UNCHANGED <<config_vars, loaded, produced>>

\* line 653: while not self.data_queue.empty()
MainPoll ==
    /\ main.pc = "poll"
    /\ MainStep("run:empty", None, Self, NoResult,
                MainAt(IF data_queue = <<>> THEN "stdin" ELSE "get", None, 0))
    /\ UNCHANGED <<data_queue, passed>>

\* line 654: self.data_queue.get()
MainGet ==
    /\ main.pc = "get"
    /\ data_queue # <<>>
    /\ MainStep("run:get", None, Self, NoResult,
                MainAt("append", Some(queue_get(data_queue).item), 0))
    /\ data_queue' = queue_get(data_queue).rest
    /\ UNCHANGED passed

\* lines 609-610
MainAppend ==
    /\ main.pc = "append"
    /\ MainStep("run:append", main.data,
                ingest([Self EXCEPT !.now = Max2(now, Get(main.data).time)],
                       Get(main.data)),
                NoResult, MainAt(next_pc("append"), main.data, main.fits))
    /\ passed' = Append(passed, Get(main.data))
    /\ UNCHANGED data_queue

\* line 612
MainFit(outcomes) ==
    /\ main.pc = "fit"
    /\ \E out \in SolverEnv(outcomes, temp_history, now) :
           MainStep("run:fit", main.data,
                    AfterRead([Self EXCEPT !.f = fit_after_ingest(Self, out).f]),
                    [NoResult EXCEPT
                        !.exc = fit_after_ingest(Self, out).exc,
                        !.solved = fit_after_ingest(Self, out).solved,
                        !.args = IF fit_after_ingest(Self, out).solved
                                 THEN Some(solver_args(temp_history, now))
                                 ELSE None],
                    MainAt(next_pc("fit"), main.data, main.fits + 1))
    /\ UNCHANGED <<data_queue, passed>>

\* lines 614-640
MainChecks ==
    /\ main.pc = "checks"
    /\ \E sms \in SmsEnv(Get(main.data)),
          l1 \in LlmEnv(Get(main.data).pit < target_pit - PitCrashBelow),
          l2 \in LlmEnv(Len(temp_history) >= TrendWindow) :
           MainStep("run:checks", main.data,
                    after_fit(Self, Get(main.data),
                              Env(NoOutcome, sms, l1, l2)),
                    NoResult, MainAt(next_pc("checks"), main.data, main.fits))
    /\ UNCHANGED <<data_queue, passed>>

\* lines 657-666: a line on stdin, if any.  Nothing or an empty line: back
\* to the top of the loop; 'quit' in any letter case: return; any other
\* line goes to handle_user_input.
StdinLines == {"", "quit", "QUIT", MsgAdded}

\* Variant: the comparison without .lower()
IsQuitExact(line) == line = "quit"

\* line 661: user_input.lower() == 'quit'
IsQuit(line) == line \in {"quit", "QUIT"}

MainStdin(bound) ==
    /\ main.pc = "stdin"
    /\ \E line \in StdinLines, ok \in BOOLEAN :
        /\ (line = "" \/ IsQuit(line)) => ok
        /\ (line # "" /\ ~IsQuit(line)) => Len(recent_user_actions) < bound
        /\ MainStep("run:stdin", None,
                    IF line = "" \/ IsQuit(line) THEN Self
                    ELSE handle_user_input(Self, line, ok),
                    NoResult,
                    [MainAt(IF IsQuit(line) THEN "returned" ELSE "poll", None, 0)
                        EXCEPT !.line = line])
    /\ UNCHANGED <<data_queue, passed>>

\* send_sms(message, alert_type) called on its own; the gateway's answer
\* is kept in call.ret
SendSms(types, bound) ==
    /\ call.n < bound
    /\ \E t \in types, resp \in SmsResponses :
           Called("send_sms", call.n + 1, None,
                  send_sms(Self, t, [x \in SmsTypes |-> resp]),
                  [NoResult EXCEPT !.ret = Some(resp)])

\* The clock moves on by one of the given numbers of seconds
Elapse(durations, bound) ==
    /\ call.n < bound
    /\ \E d \in durations :
        /\ now' = now + d
        /\ call' = Call("tick", call.n + 1, None, Self.f, NoResult)
    /\ UNCHANGED <<config_vars, self_vars, session_file, loaded, passed,
                   run_vars>>

\* Time passes
TickS == FitWindowS \div 2

Tick(bound) ==
    /\ call.n < bound
    /\ now' = now + TickS
    /\ call' = Call("tick", call.n + 1, None, Self.f, NoResult)
    /\ UNCHANGED <<config_vars, self_vars, session_file, loaded, passed,
                   run_vars>>

\* ------------------------------------------------------------------------
\* Specifications
\* ------------------------------------------------------------------------
MaxSteps        == 1    \* operations per behaviour of Spec
MaxStallAppends == 2    \* samples ingested per behaviour of SpecStall
MaxFitSteps     == 3    \* operations per behaviour of SpecFit

\* A steady pre-stall ramp one sample short of the fit minimum, and a cook
\* of 20 samples whose pit temperature sinks by 2 F per sample
RampProfile    == Ramp(14, 200, 225, 0, 100, 3)
DeclineProfile == Ramp(20, 200, 263, 0 - 2, 100, 2)

SpecInputs ==
    {Sample(LastTime + 200, pm[1], pm[2]) :
        pm \in {<<225, 145>>, <<140, 150>>, <<280, 197>>, <<225, 203>>}}

Init ==
    \E hist \in {<<>>, RampProfile, DeclineProfile},
       cf \in {"scipy", "None"}, ph \in {None, Some("+15550100")} :
        \E nm \in (IF hist = <<>> THEN {1, 2} ELSE {2}) :
            InitAs(Constructed(hist, cf, ph, nm))

Next ==
    \/ ProcessTempUpdate(SpecInputs, MaxSteps)
    \/ UpdateModelEstimate(MaxSteps)
    \/ DetectStall
    \/ GetTempSummary
    \/ CheckCriticalConditions(SpecInputs, MaxSteps)
    \/ CheckGradualTrends(MaxSteps)
    \/ HandleUserInput({MsgAdded, MsgWrapped}, MaxSteps)
    \/ ReadAmbient(AmbientReadingsC9, MaxSteps)
    \/ Tick(MaxSteps)

Spec == Init /\ [][Next]_vars

\* The stall detector on buffers whose last samples range over duplicated,
\* out-of-order and regular timestamps and over the band's edges
StallInputs ==
    {Sample(LastTime + d, 225, m) :
        d \in {0 - 200, 0, 200}, m \in {0, 149, 150, 160, 170, 171}}

\* Restored buffers: flat at 160 F (8 and 9 samples, 200 s apart), flat at
\* 150 F, and a burst of 8 samples that carry one and the same timestamp
StallProfiles ==
    { Ramp(8, 200, 225, 0, 160, 0),
      Ramp(9, 200, 225, 0, 160, 0),
      Ramp(8, 200, 225, 0, 150, 0),
      Ramp(8, 0, 225, 0, 160, 0) }

InitStall ==
    \E hist \in StallProfiles :
        InitAs(Constructed(hist, "scipy", None, 2))

NextStall ==
    \/ ProcessTempUpdate(StallInputs, MaxStallAppends)
    \/ DetectStall

SpecStall == InitStall /\ [][NextStall]_vars

\* The curve fit around the 15-point minimum and the one-hour window
FitInputs == {Sample(LastTime + 200, 225, m) : m \in {145, 160}}

\* A session of 19 samples spanning exactly one hour, the newest at 150 F
WindowProfile == Ramp(19, 200, 225, 0, 96, 3)

InitFit ==
    \E hist \in {RampProfile, WindowProfile}, cf \in {"scipy", "None"} :
        InitAs(Constructed(hist, cf, None, 2))

NextFit ==
    \/ ProcessTempUpdate(FitInputs, MaxFitSteps)
    \/ UpdateModelEstimate(MaxFitSteps)
    \/ DetectStall
    \/ Tick(MaxFitSteps)

SpecFit == InitFit /\ [][NextFit]_vars

\* A cook from an empty buffer: 15 samples at a fixed cadence, the meat
\* rising linearly from 100 F to 150 F, each ingested as it is measured
CookSample(i, step) == Sample((i - 1) * step, 225, 100 + (50 * (i - 1)) \div 14)

CookCadences == {200, 240, 300}

InitCook == InitAs(Constructed(<<>>, "scipy", None, 1))

IngestCook ==
    \E step \in CookCadences :
        /\ Len(temp_history) < 15
        /\ Len(temp_history) >= 2 => step = temp_history[2].time - temp_history[1].time
        /\ ProcessTempUpdate({CookSample(Len(temp_history) + 1, step)}, 15)

NextCook ==
    \/ IngestCook
    \/ GetTempSummary
    \/ DetectStall

SpecCook == InitCook /\ [][NextCook]_vars

\* The logistic curve evaluated on a grid of parameter tuples that reaches
\* both ends of the range of 2.0 ** gamma
LogisticParams ==
    {Popt(K, k, lam, D, g) :
        K \in {203, 250}, k \in {0 - 1, 0, 1}, lam \in {0, 1}, D \in {70, 210},
        g \in {PowUnderflowExp, 0 - 1, 0, 1, 2, PowOverflowExp - 1, PowOverflowExp}}

InitLogistic == InitAs(Constructed(<<>>, "scipy", None, 1))

NextLogistic == Logistic5AtInflection(LogisticParams)

SpecLogistic == InitLogistic /\ [][NextLogistic]_vars

\* Sessions saved and restored: a new cook and a restored one of 14 samples,
\* one sample away from the first curve fit
MaxSessionSteps == 2    \* operations per behaviour of SpecSession

InitSession ==
    \E hist \in {<<>>, RampProfile}, ph \in {None, Some("+15550100")} :
        InitAs(Constructed(hist, "scipy", ph, 2))

NextSession ==
    \/ ProcessTempUpdate(FitInputs, MaxSessionSteps)
    \/ HandleUserInput({MsgAdded, MsgWrapped}, MaxSessionSteps)
    \/ ReadAmbient(AmbientReadingsC9, MaxSessionSteps)
    \/ SaveSession(MaxSessionSteps)
    \/ LoadSession

SpecSession == InitSession /\ [][NextSession]_vars

\* The alert flags over sequences of samples: a restored session of 10
\* samples with the meat at 148 F, then samples whose pit is low, on target
\* or high and whose meat lies in or out of the 148-152 F band
MaxAlertSteps == 3    \* operations per behaviour of SpecAlerts

AlertProfile == Ramp(10, 200, 225, 0, 148, 0)

AlertInputs ==
    {Sample(LastTime + 200, pm[1], pm[2]) :
        pm \in {<<140, 150>>, <<225, 150>>, <<225, 151>>, <<280, 151>>,
                <<225, 160>>}}

InitAlerts ==
    \E hist \in {<<>>, AlertProfile}, ph \in {None, Some("+15550100")} :
        InitAs(Constructed(hist, "scipy", ph, 2))

NextAlerts ==
    \/ ProcessTempUpdate(AlertInputs, MaxAlertSteps)
    \/ CheckCriticalConditions(AlertInputs, MaxAlertSteps)

SpecAlerts == InitAlerts /\ [][NextAlerts]_vars

\* The event loop: the reader thread and the main thread interleaved, on a
\* restored session one sample short of the first curve fit
MaxProduced  == 2    \* samples the reader enqueues per behaviour of SpecRun
MaxRunInputs == 1    \* lines handled by handle_user_input per behaviour

RunInputs ==
    {Sample((IF produced = <<>> THEN LastTime
             ELSE produced[Len(produced)].time) + 200, pm[1], pm[2]) :
        pm \in {<<225, 145>>, <<140, 150>>}}

RunSolverOutcomes ==
    {SolverRaises("RuntimeError"), SolverReturns(Popt(250, 1, 1, 100, 1))}

InitRun == InitAs(Constructed(RampProfile, "scipy", Some("+15550100"), 2))

Reader ==
    \/ ReaderPut(RunInputs, MaxProduced)
    \/ ReadAmbient({180}, 1)

Main ==
    \/ MainPoll
    \/ MainGet
    \/ MainAppend
    \/ MainFit(RunSolverOutcomes)
    \/ MainChecks
    \/ MainStdin(MaxRunInputs)

NextRun == Reader \/ Main

SpecRun == InitRun /\ [][NextRun]_vars

\* The same loop with both threads scheduled fairly.  A step of the main
\* thread is enabled in every state but those after run has returned, and
\* the steps that change main are exactly the main thread's, so weak
\* fairness of the main thread, WF_vars(Main), is written out as: run has
\* returned infinitely often, or the main thread steps infinitely often.
MainFair == []<>(main.pc = "returned") \/ []<><<main' # main>>_vars

SpecRunFair == SpecRun /\ MainFair /\ WF_vars(Reader)

\* SMS alerts of two types sent at intervals below the cooldown, equal to
\* it, and longer than a day
MaxSmsSteps == 4    \* operations per behaviour of SpecSms

SmsWaits == {100, SmsCooldownS, SecondsPerDay + 100}

InitSms ==
    \E ph \in {None, Some("+15550100")} :
        InitAs(Constructed(<<>>, "scipy", ph, 1))

NextSms ==
    \/ SendSms({"pit_crash", "done"}, MaxSmsSteps)
    \/ Elapse(SmsWaits, MaxSmsSteps)

SpecSms == InitSms /\ [][NextSms]_vars

\* Pit trends: restored sessions of 20 samples whose pit sinks by 2 F or by
\* 1 F per sample (declines of 30 F and 15 F), and one of 19 samples; new
\* samples that continue the decline; user lines with and without fuel
\* words; waits of 5 and 15 minutes
MaxTrendSteps == 3    \* operations per behaviour of SpecTrend

SlowDeclineProfile  == Ramp(20, 200, 263, 0 - 1, 100, 2)
ShortDeclineProfile == Ramp(19, 200, 263, 0 - 2, 100, 2)

TrendInputs ==
    {Sample(LastTime + 200, temp_history[Len(temp_history)].pit - 2, 160)}

InitTrend ==
    \E hist \in {DeclineProfile, SlowDeclineProfile, ShortDeclineProfile} :
        InitAs(Constructed(hist, "None", None, 2))

NextTrend ==
    \/ CheckGradualTrends(MaxTrendSteps)
    \/ ProcessTempUpdate(TrendInputs, MaxTrendSteps)
    \/ HandleUserInput({MsgAdded, MsgFire}, MaxTrendSteps)
    \/ Elapse({ProactiveIntervalS, FuelQuietS}, MaxTrendSteps)

SpecTrend == InitTrend /\ [][NextTrend]_vars

\* ------------------------------------------------------------------------
\* Properties
\* ------------------------------------------------------------------------
Fields == ModelFields(model_params, eta_wrap, eta_finish, model_rmse)
FitOps == {"process_temp_update", "_update_model_estimate"}
BufLen == Len(temp_history)

\* Number of samples with timestamp within the last hour and meat <= 150
QualifyingCount ==
    Cardinality({i \in 1..BufLen :
                    /\ temp_history[i].time >= now - 3600
                    /\ temp_history[i].meat <= 150})

\* The anchor of the fitting window: the earliest qualifying sample
FitAnchor ==
    temp_history[CHOOSE i \in 1..BufLen :
                    /\ temp_history[i].time >= now - 3600
                    /\ temp_history[i].meat <= 150
                    /\ \A j \in 1..(i - 1) :
                          ~(/\ temp_history[j].time >= now - 3600
                            /\ temp_history[j].meat <= 150)].time

\* The last fit ran every statement of the try block
FitRanToEnd ==
    /\ call.solved
    /\ call.out.exc = "none"
    /\ eta_wrap_exc(call.out.popt, FitAnchor) = "none"
    /\ target_meat < call.out.popt.K
           => eta_finish_exc(call.out.popt, target_meat) = "none"
    /\ rmse_exc(call.out.popt, temp_history, FitAnchor) = "none"

\* C1: after every fit attempt the four derived fields are all-or-nothing:
\* either all four are the values of this fit (which then ran to its end),
\* or all four are exactly their values before the call.
FitAllOrNothing ==
    call.op \in FitOps =>
        \/ Fields = call.pre
        \/ /\ FitRanToEnd
           /\ model_params = Some(call.out.popt)
           /\ eta_wrap = Some(eta_wrap_value(call.out.popt, FitAnchor))
           /\ eta_finish = (IF target_meat < call.out.popt.K
                            THEN Some(eta_finish_value(call.out.popt, FitAnchor,
                                                       target_meat))
                            ELSE None)
           /\ model_rmse = Some(rmse_value(call.out.popt, temp_history, FitAnchor))

\* C2: no exception leaves _update_model_estimate, whatever the solver, the
\* inversion or the RMSE evaluation did, and process_temp_update then runs
\* to its last statement.
FitNeverPropagates ==
    call.op \in FitOps =>
        /\ call.exc = "none"
        /\ call.op = "process_temp_update" => call.done

\* C2 witness: a sample was handled to the end although the solver had
\* returned parameters whose inversion raises
FitFailureContained ==
    /\ call.op = "process_temp_update"
    /\ call.solved
    /\ call.out.exc = "none"
    /\ target_meat < call.out.popt.K
    /\ eta_finish_exc(call.out.popt, target_meat) # "none"
    /\ call.done

\* C3: with fewer than 15 qualifying samples the solver is not called and
\* the four derived fields keep their values.
FewPointsNoFit ==
    (call.op \in FitOps /\ QualifyingCount < 15) =>
        /\ ~call.solved
        /\ Fields = call.pre

\* C3 witness: a skipped fit cycle that kept the values of an earlier fit
FewPointsKeptEarlierFit ==
    /\ call.op = "_update_model_estimate"
    /\ curve_fit = "scipy"
    /\ QualifyingCount < 15
    /\ model_params # None /\ eta_wrap # None
    /\ eta_finish # None /\ model_rmse # None

\* The last three samples and the timestamps of the last ten
FNewest  == temp_history[BufLen].meat
FMiddle  == temp_history[BufLen - 1].meat
FThird   == temp_history[BufLen - 2].meat
ElapsedS == temp_history[BufLen].time - temp_history[BufLen - 2].time
Last10Times == {temp_history[i].time : i \in (BufLen - 9)..BufLen}
AllMeat160 == \A i \in 1..BufLen : temp_history[i].meat = 160

StallCalled   == call.op = "detect_stall_mathematical"
ReturnedTrue  == call.exc = "none" /\ call.stall
ReturnedFalse == call.exc = "none" /\ ~call.stall

\* |alpha| <= 0.03 with alpha = ((f_newest - f_third) / (2 * hours)) / f_middle,
\* for a positive f_middle, cleared of fractions
AlphaAtMost003 ==
    360000 * Abs(FNewest - FThird) <= 6 * Abs(ElapsedS) * FMiddle

\* C4: with at least 10 samples, at least 3 distinct timestamps among the
\* last 10 and a non-zero elapsed time between the newest and third-newest
\* sample, the detector returns True iff 150 <= f_middle <= 170 and
\* |alpha| <= 0.03.
StallIffBandAndAlpha ==
    (/\ StallCalled
     /\ BufLen >= 10
     /\ Cardinality(Last10Times) >= 3
     /\ ElapsedS # 0) =>
        (ReturnedTrue <=> (150 <= FMiddle /\ FMiddle <= 170 /\ AlphaAtMost003))

\* C4 witness: True returned at |alpha| = 0.03 exactly, temperature moving
StallAtAlphaBoundary ==
    /\ StallCalled
    /\ BufLen >= 10
    /\ ReturnedTrue
    /\ FNewest # FThird
    /\ 360000 * Abs(FNewest - FThird) = 6 * Abs(ElapsedS) * FMiddle

\* C5 as stated: meat constant at 160, at least 10 samples, at least 3
\* distinct timestamps among the last 10: the detector returns True.
Flat160AlwaysStall ==
    (/\ StallCalled
     /\ BufLen >= 10
     /\ AllMeat160
     /\ Cardinality(Last10Times) >= 3) => ReturnedTrue

\* C5 as amended: ... and the newest and the third-newest sample differ in
\* timestamp: the detector returns True.
Flat160StallUnlessZeroElapsed ==
    (/\ StallCalled
     /\ BufLen >= 10
     /\ AllMeat160
     /\ Cardinality(Last10Times) >= 3
     /\ ElapsedS # 0) => ReturnedTrue

\* C5 witness: True on a flat buffer whose last 10 hold repeated timestamps
Flat160StallWithRepeats ==
    /\ StallCalled
    /\ BufLen >= 10
    /\ AllMeat160
    /\ Cardinality(Last10Times) < 10
    /\ Cardinality(Last10Times) >= 3
    /\ ReturnedTrue

\* C6: with fewer than 10 samples the detector returns False.
FewSamplesNoStall ==
    (StallCalled /\ BufLen < 10) => ReturnedFalse

\* C6 witness: 9 samples flat at 160 F, regular timestamps, and False
NineFlatSamplesNoStall ==
    /\ StallCalled
    /\ BufLen = 9
    /\ AllMeat160
    /\ Cardinality({temp_history[i].time : i \in 1..BufLen}) = 9
    /\ ReturnedFalse

\* C7: fewer than 3 distinct timestamps among the last 10, or a zero
\* elapsed time between the newest and third-newest sample: False.
DegenerateTimesNoStall ==
    (/\ StallCalled
     /\ BufLen >= 10
     /\ \/ Cardinality(Last10Times) < 3
        \/ ElapsedS = 0) => ReturnedFalse

\* C7 witness: zero elapsed time, 3 or more distinct timestamps, and a
\* second-newest meat temperature of zero
ZeroElapsedZeroMeatNoStall ==
    /\ StallCalled
    /\ BufLen >= 10
    /\ Cardinality(Last10Times) >= 3
    /\ ElapsedS = 0
    /\ FMiddle = 0
    /\ ReturnedFalse

\* C8: the detector returns a boolean and never raises.
StallNeverRaises ==
    StallCalled => call.exc = "none"

\* C9: the buffer is exactly the samples passed to process_temp_update, in
\* call order, after those it was constructed with.
BufferIsEverySamplePassed ==
    temp_history = loaded \o passed

\* C9 witness: the same sample ingested twice, and both kept
DuplicateSamplesKept ==
    /\ Len(passed) >= 2
    /\ passed[1] = passed[2]
    /\ BufLen >= 10

\* C10: detect_stall_mathematical, _update_model_estimate, get_temp_summary,
\* check_critical_conditions and check_gradual_trends leave temp_history
\* unchanged; detect_stall_mathematical changes no field at all; and
\* process_temp_update, which calls three of them, only appends its sample.
ReadersLeaveBuffer ==
    [][/\ call'.op \in {"detect_stall_mathematical", "_update_model_estimate",
                        "get_temp_summary", "check_critical_conditions",
                        "check_gradual_trends"}
           => temp_history' = temp_history
       /\ call'.op = "detect_stall_mathematical"
           => UNCHANGED <<self_vars, config_vars, session_file>>
       /\ call'.op = "process_temp_update"
           => temp_history' = Append(temp_history, Get(call'.data))]_vars

\* C10 witness: check_critical_conditions ran its crash branch (SMS, chat
\* request, session save) on a buffer of 14 or more samples
CrashBranchRan ==
    /\ call.op = "check_critical_conditions"
    /\ alert_states.pit_crash
    /\ Len(recent_user_actions) > 0
    /\ BufLen >= 14

\* Positions of the samples no older than one hour and at most 150 F
QualifyingIdx ==
    {i \in 1..BufLen : /\ temp_history[i].time >= now - 3600
                       /\ temp_history[i].meat <= 150}

\* Position in the buffer of the n-th such sample
NthQualifying(n) ==
    CHOOSE i \in QualifyingIdx : Cardinality({j \in QualifyingIdx : j < i}) = n - 1

\* C11: the points handed to the solver are exactly the samples of the whole
\* buffer no older than one hour and with meat <= 150 (both inclusive), in
\* buffer order, each with its time measured from the first of them.
SolverGetsQualifyingPoints ==
    (call.op \in FitOps /\ call.solved) =>
        /\ Len(Get(call.args).temps) = Cardinality(QualifyingIdx)
        /\ Len(Get(call.args).t_s) = Cardinality(QualifyingIdx)
        /\ \A n \in 1..Cardinality(QualifyingIdx) :
              /\ Get(call.args).temps[n] = temp_history[NthQualifying(n)].meat
              /\ Get(call.args).t_s[n] = temp_history[NthQualifying(n)].time
                                         - temp_history[NthQualifying(1)].time

\* C11 witness: a fit whose window starts exactly one hour back, holds a
\* sample at exactly 150 F, skips a sample above 150 F lying between two
\* fitted ones, and leaves out a sample older than one hour
FitSkippedHotAndOldSamples ==
    /\ call.op \in FitOps /\ call.solved
    /\ \E i \in QualifyingIdx : temp_history[i].time = now - 3600
    /\ \E i \in QualifyingIdx : temp_history[i].meat = 150
    /\ \E i \in QualifyingIdx, k \in QualifyingIdx :
          \E j \in (i + 1)..(k - 1) : temp_history[j].meat > 150
    /\ \E i \in 1..BufLen : temp_history[i].time < now - 3600

\* The solver returned parameters in the last fit attempt
SolverConverged == call.op \in FitOps /\ call.solved /\ call.out.exc = "none"

\* C12: after a fit whose solver converged, eta_finish is set only if the
\* target meat temperature is strictly below the fitted asymptote K; with
\* target >= K it is None, even if an earlier fit had set it.
EtaFinishOnlyBelowAsymptote ==
    SolverConverged =>
        /\ eta_finish # None => target_meat < call.out.popt.K
        /\ target_meat >= call.out.popt.K => eta_finish = None

\* The ordinary case of C12: eta_wrap was computed, target >= K, and the
\* eta_finish of an earlier fit was cleared
EtaFinishCleared ==
    /\ SolverConverged
    /\ target_meat >= call.out.popt.K
    /\ call.pre.eta_finish # None
    /\ eta_finish = None

\* The last fit computed both eta_wrap and eta_finish
FitComputedEtas ==
    /\ SolverConverged
    /\ eta_wrap_exc(call.out.popt, FitAnchor) = "none"
    /\ target_meat < call.out.popt.K
    /\ eta_finish_exc(call.out.popt, target_meat) = "none"

\* target > D + (K - D) / 2^gamma for the fitted parameters, cleared of
\* fractions
TargetPastInflection ==
    IF call.out.popt.gamma >= 0
    THEN (target_meat - call.out.popt.D) * Pow2(call.out.popt.gamma)
             > call.out.popt.K - call.out.popt.D
    ELSE target_meat - call.out.popt.D
             > (call.out.popt.K - call.out.popt.D) * Pow2(0 - call.out.popt.gamma)

\* eta_finish is at or after eta_wrap, both measured from the same anchor
EtaFinishNotBeforeWrap ==
    /\ eta_wrap = Some(Get(eta_finish).anchor
                       + Get(eta_finish).popt.lam * 3600)
    /\ t_target_vs_lam(Get(eta_finish).popt, Get(eta_finish).target) >= 0

\* C13 as stated: whenever a fit defined eta_finish and the target is above
\* the fitted inflection value, eta_finish is at or after eta_wrap, for every
\* parameter tuple.
EtaOrderForEveryTuple ==
    (FitComputedEtas /\ TargetPastInflection) => EtaFinishNotBeforeWrap

\* C13 as amended: ... and the fitted rate k is positive.
EtaOrderForPositiveRate ==
    (FitComputedEtas /\ TargetPastInflection /\ call.out.popt.k > 0)
        => EtaFinishNotBeforeWrap

\* C13 witness: an asymmetric fit (gamma = 2) with positive rate, target past
\* the inflection value, and eta_finish after eta_wrap
EtaOrderedAsymmetricFit ==
    /\ FitComputedEtas /\ TargetPastInflection
    /\ call.out.popt.k > 0
    /\ call.out.popt.gamma = 2
    /\ t_target_vs_lam(Get(eta_finish).popt, Get(eta_finish).target) = 1

\* C14: after a successful fit, model_rmse is the root mean squared
\* difference between the fitted curve and the meat temperature over every
\* sample of the whole buffer, each at its elapsed time from the fitting
\* window's anchor.
RmseOverWholeBuffer ==
    (call.op \in FitOps /\ FitRanToEnd) =>
        /\ model_rmse # None
        /\ Get(model_rmse).popt = call.out.popt
        /\ Len(Get(model_rmse).points) = BufLen
        /\ \A i \in 1..BufLen :
              Get(model_rmse).points[i] =
                  <<temp_history[i].time - FitAnchor, temp_history[i].meat>>

\* C14 witness: a successful fit on a buffer that holds a sample older than
\* the fitting window and a sample above 150 F
RmseCountedOldAndHotSamples ==
    /\ call.op \in FitOps /\ FitRanToEnd
    /\ model_rmse # None
    /\ \E i \in 1..BufLen : temp_history[i].time < now - 3600
    /\ \E i \in 1..BufLen : temp_history[i].meat > 150

\* What the stall detector answers, as a function of the buffer alone
StallExpected ==
    /\ BufLen >= 10
    /\ Cardinality(Last10Times) >= 3
    /\ ElapsedS # 0
    /\ 150 <= FMiddle /\ FMiddle <= 170
    /\ AlphaAtMost003

\* C15: with curve_fit None every call of _update_model_estimate is a no-op
\* on the four derived fields, process_temp_update still appends its sample,
\* and the stall detector answers as it does with the solver present.
NoSolverNoFit ==
    /\ (call.op \in FitOps /\ curve_fit = "None") =>
          /\ ~call.solved
          /\ call.exc = "none"
          /\ Fields = call.pre
    /\ (call.op = "process_temp_update" /\ curve_fit = "None") =>
          /\ BufLen = Len(loaded) + Len(passed)
          /\ temp_history[BufLen] = Get(call.data)
          /\ call.done
    /\ StallCalled => (call.exc = "none" /\ (call.stall <=> StallExpected))

\* C15 witness: without the solver a sample was ingested into a buffer that
\* holds 15 or more qualifying samples, and no fit took place
IngestedWithoutSolver ==
    /\ curve_fit = "None"
    /\ call.op = "process_temp_update"
    /\ QualifyingCount >= 15
    /\ ~call.solved
    /\ temp_history[BufLen] = Get(call.data)

\* ... and the detector reported a stall without the solver
StalledWithoutSolver ==
    curve_fit = "None" /\ StallCalled /\ ReturnedTrue

SummaryCalled == call.op = "get_temp_summary"

\* C16: get_temp_summary returns a text and never raises; with fewer than 2
\* samples the text is 'no temp data yet'; otherwise the ETA part is there
\* exactly when both eta_wrap and eta_finish are set, and then shows them.
SummaryEtaOnlyWhenBothSet ==
    SummaryCalled =>
        /\ call.exc = "none"
        /\ call.summary # None
        /\ IF BufLen < 2
           THEN Get(call.summary) = [text |-> "no temp data yet"]
           ELSE /\ Get(call.summary).text = "Temps"
                /\ Get(call.summary).eta # None
                       <=> (eta_wrap # None /\ eta_finish # None)
                /\ Get(call.summary).eta # None =>
                       /\ Get(Get(call.summary).eta).wrap = Get(eta_wrap)
                       /\ Get(Get(call.summary).eta).finish = Get(eta_finish)

\* C16 witness: a summary without ETA part although eta_wrap is set, after
\* a fit that left eta_finish unset
SummaryWithoutEtaAfterFit ==
    /\ SummaryCalled
    /\ BufLen >= 2
    /\ model_params # None /\ eta_wrap # None /\ eta_finish = None
    /\ Get(call.summary).eta = None

\* ... and a summary that shows both ETAs
SummaryWithEta ==
    /\ SummaryCalled
    /\ BufLen >= 2
    /\ Get(call.summary).eta # None

\* C17: the summary reports the ambient temperature as unknown if and only
\* if no ambient reading was received; every reading received, 0 F included,
\* is reported as its value.
AmbientUnknownIffNoReading ==
    (SummaryCalled /\ BufLen >= 2) =>
        /\ Get(call.summary).ambient = None <=> ambient_temp = None
        /\ ambient_temp # None => Get(call.summary).ambient = ambient_temp

\* The ordinary case of C17: a reading other than 0 F is reported
AmbientReported ==
    /\ SummaryCalled /\ BufLen >= 2
    /\ ambient_temp = Some(32)
    /\ Get(call.summary).ambient = Some(32)

LogisticCalled == call.op = "_logistic5"

\* The logistic was evaluated at t = lam and returned D + (K - D) / 2^gamma
ReturnedInflectionValue ==
    /\ Get(call.data).t_s = Get(call.data).popt.lam * 3600
    /\ call.exc = "none"
    /\ call.ret # None
    /\ Get(call.ret).D = Get(call.data).popt.D
    /\ Get(call.ret).span = Get(call.data).popt.K - Get(call.data).popt.D
    /\ Get(call.ret).base = Some(2)
    /\ Get(call.ret).gamma = Get(call.data).popt.gamma

\* C18: for every parameter tuple, _logistic5 at t = lam yields
\* D + (K - D) / 2^gamma.
InflectionValueForEveryTuple ==
    LogisticCalled => ReturnedInflectionValue

\* C18 as amended: ... for every parameter tuple whose 2.0 ** gamma is a
\* finite non-zero float (-1075 < gamma < 1024).
InflectionValueInPowRange ==
    (LogisticCalled /\ 0 - 1075 < Get(call.data).popt.gamma
                    /\ Get(call.data).popt.gamma < 1024)
        => ReturnedInflectionValue

\* The ordinary case of C18: an asymmetric curve with negative rate
InflectionValueReturned ==
    /\ LogisticCalled
    /\ Get(call.data).popt.gamma = 2
    /\ Get(call.data).popt.k < 0
    /\ ReturnedInflectionValue

\* The 15 samples of the ramp, 5 minutes apart, have all been ingested
RampIngested ==
    /\ call.op = "process_temp_update"
    /\ loaded = <<>>
    /\ BufLen = 15
    /\ \A i \in 1..15 : temp_history[i].time = (i - 1) * 300
    /\ temp_history[1].meat = 100 /\ temp_history[15].meat = 150
    /\ target_meat = 203

\* C19: ingesting 15 samples at 5-minute intervals, meat rising linearly
\* from 100 to 150, with target 203, makes the fit converge: model_params,
\* eta_finish and model_rmse are set afterwards.
RampFitConverges ==
    RampIngested =>
        /\ call.solved
        /\ model_params # None
        /\ eta_finish # None
        /\ model_rmse # None

\* The same ramp at a 4-minute cadence does reach the solver, all 15 samples
\* lying within the last hour
FasterRampReachesSolver ==
    /\ call.op = "process_temp_update"
    /\ BufLen = 15
    /\ temp_history[15].time = 14 * 240
    /\ call.solved
    /\ model_params # None /\ eta_finish # None /\ model_rmse # None

\* The session file holds what save_session writes for the present state
SavedAsIs == session_file = save_session(Self).session_file

LoadCalled == call.op = "load_session"

RestoredEqualsSaved ==
    /\ call.ret # None
    /\ Get(call.ret).target_pit = target_pit
    /\ Get(call.ret).target_meat = target_meat
    /\ Get(call.ret).start_time = start_time
    /\ Get(call.ret).temp_history = temp_history
    /\ Get(call.ret).alert_states = alert_states
    /\ Get(call.ret).last_sms_time = last_sms_time
    /\ Get(call.ret).recent_user_actions = recent_user_actions
    /\ Get(call.ret).last_fuel_mention = last_fuel_mention
    /\ Get(call.ret).temp_recovery_in_progress = temp_recovery_in_progress
    /\ Get(call.ret).last_display_time = last_display_time
    /\ Get(call.ret).last_proactive_check = last_proactive_check
    /\ Get(call.ret).f = Fields

\* C20: save_session followed by load_session on the same file returns a
\* conversation, not None, whose metadata, start time, temperature history,
\* alert states, SMS times, context-tracking fields and model fields equal
\* those of the saved one, in every reachable state, states after a
\* successful curve fit included.
SaveLoadRoundTrip == (LoadCalled /\ SavedAsIs) => RestoredEqualsSaved

\* A session of 15 samples and a user action, with no fit yet, comes back
\* from the file as it was saved
RoundTripKeptSession ==
    /\ LoadCalled /\ SavedAsIs /\ RestoredEqualsSaved
    /\ BufLen >= 15 /\ recent_user_actions # <<>>

\* The round trip holds as long as no curve fit has set a model field
RoundTripBeforeFit ==
    (LoadCalled /\ SavedAsIs /\ Fields = NoFields) => RestoredEqualsSaved

\* After a successful fit the saved file does not load
LoadFailedAfterFit ==
    /\ LoadCalled /\ SavedAsIs /\ call.ret = None
    /\ model_params # None /\ eta_wrap # None /\ eta_finish # None
    /\ model_rmse # None

\* check_critical_conditions ran to its end on the sample call.data
ChecksRan ==
    \/ call.op = "check_critical_conditions"
    \/ call.op = "process_temp_update" /\ call.done

PitCrashed(d) == d.pit < target_pit - PitCrashBelow
PitSpiked(d) == d.pit > target_pit + PitSpikeAbove

\* C21: after every call of check_critical_conditions(data) the pit_crash
\* flag is True exactly when data.pit < target_pit - 75 and the pit_spike
\* flag is True exactly when data.pit > target_pit + 50, whatever the flags
\* were before the call.
PitFlagsFollowSample ==
    ChecksRan =>
        /\ alert_states.pit_crash <=> PitCrashed(Get(call.data))
        /\ alert_states.pit_spike <=> PitSpiked(Get(call.data))

\* A crash alert was raised by an earlier sample (its question is among the
\* user actions) and the flag is False again after a sample on target
PitCrashFlagCleared ==
    /\ call.op = "check_critical_conditions"
    /\ call.n >= 2
    /\ ~alert_states.pit_crash /\ ~alert_states.pit_spike
    /\ \E i \in 1..Len(recent_user_actions) :
           recent_user_actions[i].message = MsgCrash

\* The sample taken from the queue and not yet appended
InHand == IF main.pc = "append" THEN <<Get(main.data)>> ELSE <<>>

\* C22: under every interleaving of the reader thread and the main loop,
\* every sample the reader enqueued is appended to temp_history at most
\* once and in the order it was enqueued: the samples appended, the one in
\* hand and the ones still queued are together the samples produced, in
\* order, and the buffer is the restored one followed by those appended.
QueueDeliversOnceInOrder ==
    /\ produced = passed \o InHand \o data_queue
    /\ temp_history = loaded \o passed

\* Two samples were enqueued and both have reached the buffer
BothSamplesAppended ==
    /\ Len(produced) = 2 /\ passed = produced /\ data_queue = <<>>
    /\ temp_history[Len(temp_history)] = produced[2]
    /\ temp_history[Len(temp_history) - 1] = produced[1]

\* C23: temp_history and the model fields are written only by the main
\* thread: a step of the reader thread (which writes data_queue and
\* ambient_temp) leaves the buffer and the model fields as they are, also
\* when it falls between the statements of process_temp_update.
ReaderLeavesBufferAndModel ==
    [][call'.op = "temp_reader_thread"
         => UNCHANGED <<temp_history, model_params, eta_wrap, eta_finish,
                        model_rmse>>]_vars

\* The reader enqueued a sample while the main thread stood between the
\* append and the fit of the sample before it
ReaderRanDuringProcessing ==
    /\ call.op = "temp_reader_thread"
    /\ main.pc = "fit"
    /\ data_queue # <<>>
    /\ temp_history = loaded \o passed

\* process_temp_update has run to its end on the i-th sample enqueued
Processed(i) ==
    /\ Len(passed) >= i
    /\ ~(Len(passed) = i /\ main.pc \in {"fit", "checks"})

QuitLines == {"quit", "QUIT"}

\* C24: with both threads scheduled fairly, every sample put on the queue
\* is eventually processed by process_temp_update unless run has returned;
\* a line 'quit' in any letter case makes run return; and after run has
\* returned no further sample is processed.
RunProcessesUntilQuit ==
    /\ \A i \in 1..(MaxProduced + 1) :
           (Len(produced) >= i) ~> (Processed(i) \/ main.pc = "returned")
    /\ [][main'.line \in QuitLines => main'.pc = "returned"]_vars
    /\ [][main.pc = "returned"
            => (main'.pc = "returned" /\ passed' = passed
                /\ temp_history' = temp_history)]_vars

\* 'QUIT' ended the loop after one sample was processed, with another
\* sample still on the queue
QuitLeftSampleQueued ==
    /\ main.pc = "returned"
    /\ call.op = "temp_reader_thread"
    /\ Len(passed) = 1 /\ Len(data_queue) = 1

\* 'QUIT' in capitals has just been read and run has returned
QuitInCapitalsReturned ==
    /\ call.op = "run:stdin" /\ main.line = "QUIT"
    /\ main.pc = "returned" /\ passed # <<>>

\* The sample in hand is the newest of the buffer and last_update is its
\* timestamp
NewestIsInHand ==
    /\ temp_history # <<>>
    /\ temp_history[Len(temp_history)] = Get(main.data)
    /\ last_update = Some(Get(main.data).time)

\* C25: process_temp_update appends the sample and sets last_update, then
\* makes exactly one fit attempt on the buffer that holds the new sample,
\* and runs the critical-condition checks only after that attempt: when
\* the fit is about to run the sample is in the buffer and no attempt has
\* been made for it, the solver (if reached) gets the points of that
\* buffer, and the checks start and end with one attempt made.
IngestThenFitThenChecks ==
    /\ main.pc = "fit" => (NewestIsInHand /\ main.fits = 0)
    /\ main.pc = "checks" => (NewestIsInHand /\ main.fits = 1)
    /\ call.op = "run:fit"
         => /\ NewestIsInHand /\ main.fits = 1
            /\ call.solved => call.args = Some(solver_args(temp_history, now))
    /\ call.op = "run:checks" => (NewestIsInHand /\ main.fits = 1)

\* The checks raised a crash alert on a sample whose fit, made first,
\* had set the model
ChecksRanAfterFit ==
    /\ call.op = "run:checks" /\ main.fits = 1
    /\ "pit_crash" \in call.sms_calls
    /\ model_params # None
    /\ Len(temp_history) = 15

\* C26: per alert type, send_sms never posts less than sms_cooldown
\* seconds after the last successful send of that type; last_sms_time of a
\* type changes only in a send of that type that posted and was answered
\* with success, and then to the time of the send; and without a phone
\* send_sms posts nothing and changes no attribute.
SmsCooldownRespected ==
    [][/\ \A t \in SmsTypes :
            /\ (t \in call'.sms_posts /\ last_sms_time[t] # None)
                  => now' - Get(last_sms_time[t]) >= SmsCooldownS
            /\ last_sms_time'[t] # last_sms_time[t]
                  => /\ call'.op = "send_sms" /\ t \in call'.sms_posts
                     /\ call'.ret = Some("success")
                     /\ last_sms_time'[t] = Some(now')
       /\ (call'.op = "send_sms" /\ phone = None)
            => (call'.sms_posts = {} /\ UNCHANGED <<self_vars, session_file>>)
      ]_vars

\* A send went out exactly when the cooldown of an earlier successful send
\* of its type had run out, and a send that failed had left the time as it
\* was
SmsPostedAtCooldownEnd ==
    /\ call.op = "send_sms" /\ call.ret = Some("error")
    /\ "pit_crash" \in call.sms_posts
    /\ last_sms_time["pit_crash"] = Some(now - SmsCooldownS)

\* C27: with a phone configured, a send_sms call made sms_cooldown seconds
\* or more after the last successful send of its type posts the message,
\* however long ago that send was: a call that did not post found a
\* successful send of its type less than sms_cooldown seconds back.
SmsCooldownExpires ==
    \A t \in SmsTypes :
        (call.op = "send_sms" /\ phone # None
         /\ t \in call.sms_calls /\ t \notin call.sms_posts)
            => /\ last_sms_time[t] # None
               /\ now - Get(last_sms_time[t]) < SmsCooldownS

\* A send made 1000 seconds after the last success of its type went out
SmsPostedAfterCooldown ==
    /\ call.op = "send_sms" /\ call.ret = Some("failure")
    /\ "done" \in call.sms_posts
    /\ last_sms_time["done"] = Some(now - (SmsCooldownS + 100))

\* A send made a day and 100 seconds after the last success was held back
SmsHeldBackAfterADay ==
    /\ call.op = "send_sms" /\ phone # None
    /\ "done" \in call.sms_calls /\ "done" \notin call.sms_posts
    /\ last_sms_time["done"] = Some(now - (SecondsPerDay + 100))

\* The sample of the call before was not below the crash threshold (or
\* there was none), resp. not above the spike threshold
RunOfCrashStarts == call.data = None \/ ~PitCrashed(Get(call.data))
RunOfSpikeStarts == call.data = None \/ ~PitSpiked(Get(call.data))

\* C28: the pit-crash and pit-spike alerts are edge-triggered.  Over any
\* sequence of samples send_sms for 'pit_crash', and the automatic question
\* to Claude with it, is invoked exactly on the first sample of a run of
\* samples with pit < target_pit - 75, and again only after a sample at or
\* above that threshold; likewise 'pit_spike' with pit > target_pit + 50.
PitAlertsEdgeTriggered ==
    [][/\ "pit_crash" \in call'.sms_calls
            <=> (PitCrashed(Get(call'.data)) /\ RunOfCrashStarts)
       /\ recent_user_actions' # recent_user_actions
            <=> (PitCrashed(Get(call'.data)) /\ RunOfCrashStarts)
       /\ recent_user_actions' # recent_user_actions
            => recent_user_actions'[Len(recent_user_actions')].message = MsgCrash
       /\ "pit_spike" \in call'.sms_calls
            <=> (PitSpiked(Get(call'.data)) /\ RunOfSpikeStarts)
      ]_vars

\* The crash alert was raised a second time, after a sample on target had
\* ended the first run of low samples
CrashAlertRaisedAgain ==
    /\ call.n = 3 /\ "pit_crash" \in call.sms_calls
    /\ Len(recent_user_actions) = 2
    /\ recent_user_actions[1].message = MsgCrash
    /\ recent_user_actions[2].message = MsgCrash

\* 148 < meat < 152, more than 10 samples in the buffer h and a spread
\* below 3 over its last 10 meat temperatures
StallApproach(d, h) ==
    /\ StallSoonLowF < d.meat /\ d.meat < StallSoonHighF
    /\ Len(h) > StallSoonWindow
    /\ RecentMeatSpread(h) < StallSoonSpreadF

StallFlagKeptInBand ==
    /\ ChecksRan /\ alert_states.stall_approaching
    /\ StallSoonLowF < Get(call.data).meat
    /\ Get(call.data).meat < StallSoonHighF
    /\ Len(temp_history) > StallSoonWindow
    /\ RecentMeatSpread(temp_history) >= StallSoonSpreadF

\* A decline alert fires in this step: its question is appended to the
\* user actions
DeclineAlertFires ==
    /\ recent_user_actions' # recent_user_actions
    /\ recent_user_actions'[Len(recent_user_actions')].message = MsgDecline

\* The lines that handle_user_input counts as fuel mentions
FuelLines == {MsgDecline, MsgAdded}

\* C30: a decline alert is raised only with at least 20 samples in the
\* buffer and a decline of at least 15 F, and never less than 15 minutes
\* after a fuel-related line reached handle_user_input; the alert's own
\* question is such a line, so no second decline alert fires within 15
\* minutes of one, however large the decline.
DeclineAlertKeepsQuiet ==
    [][DeclineAlertFires
         => /\ Len(temp_history') >= TrendWindow
            /\ PitDecline5(temp_history') >= DeclineAlertF * TrendAvgWindow
            /\ \A i \in 1..Len(recent_user_actions) :
                   recent_user_actions[i].message \in FuelLines
                     => now' - recent_user_actions[i].time >= FuelQuietS
      ]_vars

\* A second decline alert fired, 15 minutes after the first
SecondDeclineAlertAfterQuiet ==
    /\ Len(recent_user_actions) = 2
    /\ recent_user_actions[1].message = MsgDecline
    /\ recent_user_actions[2].message = MsgDecline
    /\ recent_user_actions[2].time = now
    /\ recent_user_actions[2].time - recent_user_actions[1].time = FuelQuietS

\* A decline of 30 F raised no alert 5 minutes after a decline alert
DeclineAlertHeldBack ==
    /\ call.op = "check_gradual_trends"
    /\ Len(recent_user_actions) = 1
    /\ recent_user_actions[1].message = MsgDecline
    /\ now - recent_user_actions[1].time = ProactiveIntervalS
    /\ PitDecline5(temp_history) >= DeclineSevereF * TrendAvgWindow

====
